---- MODULE Spec2Model ----
(***************************************************************************)
(* Cryptanalysis tools of crypto_tools: the affine cipher cracker          *)
(* (tool_affinecipher, modes -ca and -cb) and the Vigenere key cracker     *)
(* (tool_vigenerecipher, mode -c).                                         *)
(*                                                                         *)
(* Characters are modelled by their character codes ('a' = 97), strings by *)
(* sequences of codes.  C++ indices are 0-based; the sequences here are    *)
(* 1-based, and Find returns 0 where std::string::find returns npos.       *)
(***************************************************************************)
EXTENDS Integers, Sequences, FiniteSets, TLC

VARIABLES
  pc,            \* position of main: which loop it is in
  ciph,          \* affine: the first input line; vigenere: the filtered sample
  known,         \* affine: list of known <<plain, cipher>> pairs (-k m c)
  i, j,          \* loop counters of the running loop
  done,          \* affine: the early-exit flag
  out,           \* rows / keys written to cout, in order
  last,          \* affine: the candidate and score of the latest checkSoln call
  nEval,         \* affine: number of checkSoln calls made so far
  rest,          \* affine -cb: the input stream after the first line
  tie,           \* the order std::sort leaves entries of equal count in
  freqs,         \* affine -cb: the first 26 entries of the sorted frequency table
  tested,        \* affine -cb: the set of solutions already tried
  cand,          \* affine -cb: the latest solution that was new to tested
  nTried,        \* affine -cb: number of solutions that were new to tested
  lines,         \* vigenere: the lines of the input stream not yet read
  key_max,       \* vigenere: the maximum key length to check (-c n)
  guessLengths,  \* vigenere: the key lengths with the most matches so far
  guessMatches,  \* vigenere: the most matches seen so far
  g,             \* vigenere: position in guessLengths of the key being generated
  key,           \* vigenere: the key being generated
  col,           \* vigenere: the column (ciph_) of the latest key symbol
  scores,        \* vigenere: the 26 dot products computed for that column
  ub,            \* vigenere: undefined behaviour has happened
  files,         \* frequency tool: the files of the command line not yet processed
  frequencies,   \* frequency tool: the table of <<letter, count, percent>> entries
  total,         \* frequency tool: the number of characters counted
  args,          \* the arguments of a function applied on its own
  result,        \* the value the function returned for args
  argv,          \* bbs tool: the commands of the command line
  groups,        \* bbs tool: the command groups, each with the state of its thread
  threads        \* bbs tool: the vector threads of main, in the order of their start

vars == <<pc, ciph, known, i, j, done, out, last, nEval, rest, tie, freqs, tested, cand, nTried,
          lines, key_max, guessLengths, guessMatches, g, key, col, scores, ub,
          files, frequencies, total, args, result, argv, groups, threads>>

\* the variables the -cb crack alone uses
bestVars == <<rest, freqs, tested, cand, nTried>>

\* the variables the vigenere crack alone uses
vigVars == <<lines, key_max, guessLengths, guessMatches, g, key, col, scores, ub>>

\* the vigenere variables before the tool runs
VigIdle ==
  /\ lines = <<>>
  /\ key_max = 0
  /\ guessLengths = <<>>
  /\ guessMatches = 0
  /\ g = 0
  /\ key = <<>>
  /\ col = <<>>
  /\ scores = <<>>
  /\ ub = FALSE

\* the variables the frequency tool alone uses
freqVars == <<files, frequencies, total>>

\* the variables the bbs tool alone uses
bbsVars == <<argv, groups, threads>>

\* the variables of a function applied on its own
pureVars == <<args, result>>

\* the variables of the tools other than the crackers
toolVars == <<freqVars, pureVars, bbsVars>>

\* the variables of the bbs tool before it runs
BbsIdle ==
  /\ argv = <<>>
  /\ groups = <<>>
  /\ threads = <<>>

\* the variables of those tools before they run
ToolsIdle ==
  /\ files = <<>>
  /\ frequencies = <<>>
  /\ total = 0
  /\ args = <<>>
  /\ result = <<>>
  /\ BbsIdle

(***************************************************************************)
(* Bounds of the model                                                     *)
(***************************************************************************)
MaxKnown == 3
MaxCiphLen == 2

\* characters the input line is drawn from: 'i', 'n', 'I'
CiphChars == {105, 110, 73}
\* known pairs the -k arguments are drawn from: a->i, b->n, b->i
KnownPairs == {<<97, 105>>, <<98, 110>>, <<98, 105>>}

SeqsUpTo(S, n) == UNION {[1..m -> S] : m \in 0..n}

(***************************************************************************)
(* Constants of the tools                                                  *)
(***************************************************************************)
\* "abcdefghijklmnopqrstuvwxyz"
ALPHABET == [k \in 1..26 |-> 96 + k]

\* std::string::find of a character: 1-based index of the first occurrence, 0 for npos
Find(s, c) ==
  LET at == {k \in 1..Len(s) : s[k] = c}
  IN IF at = {} THEN 0 ELSE CHOOSE k \in at : \A m \in at : k <= m

tolower(c) == IF c >= 65 /\ c <= 90 THEN c + 32 ELSE c

(***************************************************************************)
(* cryptomath and the affine transformer (library used by the tools)       *)
(***************************************************************************)
RECURSIVE gcd(_, _)
gcd(a, b) == IF b = 0 THEN a ELSE gcd(b, a % b)

mod(x, n) == x % n

inverseMod(x, n) ==
  IF \E y \in 1..(n-1) : (x * y) % n = 1
  THEN CHOOSE y \in 1..(n-1) : (x * y) % n = 1
  ELSE 0

\* affine::transformer(a, b, ALPHABET, false).decrypt of one character,
\* ainv the inverse of a mod 26: m = (c - b) * ainv
decryptChar(ainv, b, c) ==
  LET idx == Find(ALPHABET, tolower(c))
  IN IF idx = 0 THEN c
     ELSE ALPHABET[mod((idx - 1 - b) * ainv, 26) + 1]

decrypt(a, b, s) ==
  LET ainv == inverseMod(mod(a, 26), 26)
  IN [k \in 1..Len(s) |-> decryptChar(ainv, b, s[k])]

\* affine::transformer(a, b, ALPHABET, false).encrypt of one character
encryptChar(a, b, c) ==
  LET idx == Find(ALPHABET, tolower(c))
  IN IF idx = 0 THEN c
     ELSE ALPHABET[mod(a * (idx - 1) + b, 26) + 1]

(***************************************************************************)
(* checkSoln: the loop over the known pairs, from pair k on                *)
(***************************************************************************)
\* checkLoop that examines the pair k alone
checkLoopOnePair(msg, c, kn, k, matches) ==
  IF k > Len(kn) THEN matches
  ELSE LET index == Find(msg, kn[k][1])
       IN IF index = 0 THEN matches
          ELSE IF c[index] = kn[k][2] THEN matches + 1 ELSE -1

\* checkLoop with the break after "matches = -1" left out
RECURSIVE checkLoopNoBreak(_, _, _, _, _)
checkLoopNoBreak(msg, c, kn, k, matches) ==
  IF k > Len(kn) THEN matches
  ELSE LET index == Find(msg, kn[k][1])
       IN IF index /= 0
          THEN IF c[index] = kn[k][2]
               THEN IF matches + 1 = 2 THEN 2
                    ELSE checkLoopNoBreak(msg, c, kn, k + 1, matches + 1)
               ELSE checkLoopNoBreak(msg, c, kn, k + 1, -1)
          ELSE checkLoopNoBreak(msg, c, kn, k + 1, matches)

RECURSIVE checkLoop(_, _, _, _, _)
checkLoop(msg, c, kn, k, matches) ==
  IF k > Len(kn) THEN matches
  ELSE LET index == Find(msg, kn[k][1])
       IN IF index /= 0
          THEN IF c[index] = kn[k][2]
               THEN IF matches + 1 = 2 THEN 2
                    ELSE checkLoop(msg, c, kn, k + 1, matches + 1)
               ELSE -1
          ELSE checkLoop(msg, c, kn, k + 1, matches)

\* checkSoln(a, b, ciph, known): <<number of matched knowns, decrypted text>>
checkSoln(a, b, c, kn) ==
  LET msg == decrypt(a, b, c)
  IN <<checkLoop(msg, c, kn, 1, 0), msg>>

(***************************************************************************)
(* main, mode Crack_All (-ca)                                              *)
(***************************************************************************)
InitAll ==
  /\ pc = "crack_all"
  /\ ciph \in SeqsUpTo(CiphChars, MaxCiphLen)
  /\ known \in SeqsUpTo(KnownPairs, MaxKnown)
  /\ i = 0
  /\ j = 0
  /\ done = FALSE
  /\ out = <<>>
  /\ last = <<>>
  /\ nEval = 0
  /\ rest = <<>>
  /\ tie = "index"
  /\ freqs = <<>>
  /\ tested = {}
  /\ cand = <<>>
  /\ nTried = 0
  /\ VigIdle
  /\ ToolsIdle

\* PrintsRow that lets no row through
PrintsRowNever(score) == FALSE

\* PrintsRow without the test of the score
PrintsRowAlways(score) == TRUE

\* does the row of a candidate with this score go to cout
PrintsRow(score) == score /= -1

\* Confident that takes one matched known for a confident match
ConfidentAtOne(score) == score >= 1

\* Confident that never sets done
ConfidentNever(score) == FALSE

\* a score of 0 taken for the confident one
ConfidentAtZero(score) == score = 0

\* does a candidate with this score end the search
Confident(score) == score = 2

\* for(i ...) with an a that is no valid key: the body is skipped
CrackAllSkip ==
  /\ pc = "crack_all"
  /\ i < 26 /\ ~done
  /\ gcd(i, 26) /= 1
  /\ i' = i + 1
  /\ UNCHANGED <<pc, ciph, known, j, done, out, last, nEval, bestVars, tie, vigVars, toolVars>>

\* one pass of the inner loop body: candidate (i, j)
CrackAllStep ==
  /\ pc = "crack_all"
  /\ i < 26 /\ ~done
  /\ gcd(i, 26) = 1
  /\ \E check \in {checkSoln(i, j, ciph, known)} :
        /\ out' = IF PrintsRow(check[1]) THEN Append(out, <<i, j, check[2]>>) ELSE out
        /\ done' = Confident(check[1])
        /\ last' = <<i, j, check[1]>>
        /\ nEval' = nEval + 1
        /\ IF j + 1 < 26 /\ ~Confident(check[1])
           THEN /\ j' = j + 1
                /\ i' = i
           ELSE /\ j' = 0
                /\ i' = i + 1
  /\ UNCHANGED <<pc, ciph, known, bestVars, tie, vigVars, toolVars>>

\* the outer loop ends: i reached 26 or done was set
CrackAllExit ==
  /\ pc = "crack_all"
  /\ (i >= 26 \/ done)
  /\ pc' = "exit"
  /\ UNCHANGED <<ciph, known, i, j, done, out, last, nEval, bestVars, tie, vigVars, toolVars>>

NextAll == CrackAllSkip \/ CrackAllStep \/ CrackAllExit

SpecAll == InitAll /\ [][NextAll]_vars

\* the brute-force crack on the ciphertext of "attackatdawn" under a = 5,
\* b = 8 with the known pair a -> i
Attack == <<97, 116, 116, 97, 99, 107, 97, 116, 100, 97, 119, 110>>

InitScenario ==
  /\ pc = "crack_all"
  /\ ciph = [n \in 1..Len(Attack) |-> encryptChar(5, 8, Attack[n])]
  /\ known = <<<<97, 105>>>>
  /\ i = 0
  /\ j = 0
  /\ done = FALSE
  /\ out = <<>>
  /\ last = <<>>
  /\ nEval = 0
  /\ rest = <<>>
  /\ tie = "index"
  /\ freqs = <<>>
  /\ tested = {}
  /\ cand = <<>>
  /\ nTried = 0
  /\ VigIdle
  /\ ToolsIdle

SpecScenario == InitScenario /\ [][NextAll]_vars

(***************************************************************************)
(* main, mode Crack_Best (-cb)                                             *)
(***************************************************************************)
\* "etaoinsrhdlucmfywgpbvkxqjz"
FREQUENCIES ==
  <<101, 116, 97, 111, 105, 110, 115, 114, 104, 100, 108, 117, 99,
    109, 102, 121, 119, 103, 112, 98, 118, 107, 120, 113, 106, 122>>

\* (char)ALPHABET.find(c): the residue of c, -1 where find returns npos
Index(c) ==
  LET f == Find(ALPHABET, c)
  IN IF f = 0 THEN -1 ELSE f - 1

\* linsolve without the test gcd(alpha, 26) = 1
linsolveNoGcd(p1, p2) ==
  LET inv == inverseMod(mod(p2[1] - p1[1], 26), 26)
      alpha == mod((p2[2] - p1[2]) * inv, 26)
  IN IF inv = 0 THEN <<0, 0>> ELSE <<alpha, mod(p1[2] - p1[1] * alpha, 26)>>

\* linsolve with beta taken from the second pair's y
linsolveBetaOfSecond(p1, p2) ==
  LET inv == inverseMod(mod(p2[1] - p1[1], 26), 26)
      alpha == mod((p2[2] - p1[2]) * inv, 26)
  IN IF inv = 0 \/ gcd(alpha, 26) /= 1 THEN <<0, 0>>
     ELSE <<alpha, mod(p2[2] - p1[1] * alpha, 26)>>

\* linsolve(p1, p2): <<a, b>>, <<0, 0>> if there is no solution
linsolve(p1, p2) ==
  LET x1 == p1[1]
      y1 == p1[2]
      x2 == p2[1]
      y2 == p2[2]
      inv == inverseMod(mod(x2 - x1, 26), 26)
      alpha == mod((y2 - y1) * inv, 26)
      beta == mod(y1 - x1 * alpha, 26)
  IN IF inv = 0 THEN <<0, 0>>
     ELSE IF gcd(alpha, 26) = 1 THEN <<alpha, beta>>
     ELSE <<0, 0>>

\* Fresh without the look-up in tested
FreshNoDedup(soln, tst) == soln[1] /= 0

\* soln.first && tested.insert(soln).second
Fresh(soln, tst) == soln[1] /= 0 /\ soln \notin tst

\* the char stored in entry e of the table: (char)e
EntryChar(e) == IF e <= 127 THEN e ELSE e - 256

\* vector<pair<char, int>> freqs(255), freqs[i] = make_pair(i, 0)
EmptyTable == [e \in 0..254 |-> <<EntryChar(e), 0>>] @@ <<>>

\* the lambda inc of the -cb crack
inc(p) == IF p[1] >= 97 /\ p[2] <= 122 THEN <<p[1], p[2] + 1>> ELSE p

\* the lambda inc of the vigenere crack
incColumn(p) == <<p[1], p[2] + 1>>

\* the lambda of the frequency tool: f.count++
incCount(f) == <<f[1], f[2] + 1, f[3]>>

\* the lambda of the tool on the entry of the character c, a letter taken as
\* lower case
countOne(c, tbl, tool) ==
  IF tolower(c) \in DOMAIN tbl
  THEN [tbl EXCEPT ![tolower(c)] = IF tool = "affine" THEN inc(@)
                                  ELSE IF tool = "frequency" THEN incCount(@)
                                  ELSE incColumn(@)]
  ELSE tbl

\* the characters lo to hi of the text counted one after the other (the
\* range is split in two to keep the nesting of the evaluation shallow)
RECURSIVE countRange(_, _, _, _, _)
countRange(text, tbl, tool, lo, hi) ==
  IF lo > hi THEN tbl
  ELSE IF lo = hi THEN countOne(text[lo], tbl, tool)
  ELSE CHOOSE after \in
         {countRange(text, half, tool, ((lo + hi) \div 2) + 1, hi) :
            half \in {countRange(text, tbl, tool, lo, (lo + hi) \div 2)}} : TRUE

\* countFrequencies(text, freqs.begin(), inc, false): the lambda of the tool
\* on the entry of each character of the text from the k-th on
countFrequencies(text, tbl, tool, k) == countRange(text, tbl, tool, k, Len(text))

\* orders in which a sort may leave the entries of equal count
\* ("index": as a stable sort leaves them; "reverse": last entry first;
\* "letters": from entry 'a' on, wrapping round)
TieOrders == {"index", "reverse", "letters"}

\* the table indices in the order t
Ord(t) ==
  IF t = "index" THEN [k \in 1..255 |-> k - 1]
  ELSE IF t = "reverse" THEN [k \in 1..255 |-> 255 - k]
  ELSE [k \in 1..255 |-> (k + 96) % 255]

RECURSIVE byLevel(_, _, _)
byLevel(tbl, ord, levels) ==
  IF levels = {} THEN <<>>
  ELSE LET top == CHOOSE l \in levels : \A m \in levels : m <= l
       IN SelectSeq(ord, LAMBDA e : tbl[e][2] = top) \o byLevel(tbl, ord, levels \ {top})

\* the entries of the table in the order given by a sequence of its indices
Permuted(tbl, order) == [k \in 1..Len(order) |-> tbl[order[k]]]

\* sort(freqs.begin(), freqs.end(), l.second > r.second): the entries in
\* descending order of count, entries of equal count in the order t
sortFreqs(tbl, t) ==
  Permuted(tbl, byLevel(tbl, Ord(t), {tbl[e][2] : e \in DOMAIN tbl}))

\* the loop position past the last pair: the loop over the pairs is skipped
FirstPairNone(n) == <<n, n>>

\* the loop position after (i, j) of: for i < n, for j = i + 1; j < n
AfterPair(a, b, n) ==
  IF b + 1 < n THEN <<a, b + 1>>
  ELSE IF a + 2 < n THEN <<a + 1, a + 2>>
  ELSE <<n, n>>

FirstPair(n) == IF n >= 2 THEN <<0, 1>> ELSE <<n, n>>

\* the loop position after (i, j) of: for i < 26, for j < n
AfterCell(a, b, n) == IF b + 1 < n THEN <<a, b + 1>> ELSE <<a + 1, 0>>

FirstCell(n) == IF n >= 1 THEN <<0, 0>> ELSE <<26, 0>>

\* characters the first line is drawn from: 'i', 'n'; the rest of the stream: 'n'
BestChars == {105, 110}
RestChars == {110}
MaxBestLen == 1
MaxRest == 1

InitBest ==
  /\ pc = "tier1"
  /\ ciph \in SeqsUpTo(BestChars, MaxBestLen)
  /\ rest \in SeqsUpTo(RestChars, MaxRest)
  /\ known \in SeqsUpTo(KnownPairs, MaxKnown)
  /\ tie \in TieOrders
  /\ i = FirstPair(Len(known))[1]
  /\ j = FirstPair(Len(known))[2]
  /\ done = FALSE
  /\ out = <<>>
  /\ last = <<>>
  /\ nEval = 0
  /\ freqs = <<>>
  /\ tested = {}
  /\ cand = <<>>
  /\ nTried = 0
  /\ VigIdle
  /\ ToolsIdle

\* tier 1, one pass of the inner loop body: known pairs i and j
BestTier1Step ==
  /\ pc = "tier1"
  /\ i < Len(known) /\ ~done
  /\ LET knowni == <<Index(known[i + 1][1]), Index(known[i + 1][2])>>
         knownj == <<Index(known[j + 1][1]), Index(known[j + 1][2])>>
     IN \E soln \in {linsolve(knowni, knownj)} :
          IF Fresh(soln, tested)
          THEN /\ tested' = tested \cup {soln}
               /\ cand' = soln
               /\ nTried' = nTried + 1
               /\ out' = Append(out, <<soln[1], soln[2], decrypt(soln[1], soln[2], ciph)>>)
               /\ done' = TRUE
          ELSE UNCHANGED <<tested, cand, nTried, out, done>>
  /\ \E nxt \in {AfterPair(i, j, Len(known))} : i' = nxt[1] /\ j' = nxt[2]
  /\ UNCHANGED <<pc, ciph, known, last, nEval, rest, tie, freqs, vigVars, toolVars>>

\* tier 1 ends: without a solution the frequency analysis follows
BestTier1Exit ==
  /\ pc = "tier1"
  /\ (i >= Len(known) \/ done)
  /\ pc' = IF done THEN "exit" ELSE "freq"
  /\ UNCHANGED <<ciph, known, i, j, done, out, last, nEval, bestVars, tie, vigVars, toolVars>>

\* the frequency table of the first line and the rest of the stream, sorted
BestFreq ==
  /\ pc = "freq"
  /\ LET counted == countFrequencies(rest, countFrequencies(ciph, EmptyTable, "affine", 1), "affine", 1)
     IN freqs' = SubSeq(sortFreqs(counted, tie), 1, 26)
  /\ pc' = "tier2"
  /\ \E nxt \in {FirstCell(Len(known))} : i' = nxt[1] /\ j' = nxt[2]
  /\ UNCHANGED <<ciph, known, done, out, last, nEval, rest, tie, tested, cand, nTried, vigVars, toolVars>>

\* tiers 2 and 3: a solution of the linear solve is scored unless already tried
Verify(soln) ==
  IF Fresh(soln, tested)
  THEN \E check \in {checkSoln(soln[1], soln[2], ciph, known)} :
         /\ tested' = tested \cup {soln}
         /\ cand' = soln
         /\ nTried' = nTried + 1
         /\ out' = IF PrintsRow(check[1])
                   THEN Append(out, <<soln[1], soln[2], check[2]>>) ELSE out
         /\ done' = Confident(check[1])
         /\ last' = <<soln[1], soln[2], check[1]>>
         /\ nEval' = nEval + 1
  ELSE UNCHANGED <<tested, cand, nTried, out, done, last, nEval>>

\* tier 2: "Ensure frequency doesn't conflict with known"
NoConflict(f, p) == f[1] /= p[1] /\ f[2] /= p[2]

\* tier 2, one pass of the inner loop body: frequency rank i, known pair j
BestTier2Step ==
  /\ pc = "tier2"
  /\ i < 26 /\ ~done
  /\ IF NoConflict(freqs[i + 1], known[j + 1])
     THEN LET possible == <<Index(FREQUENCIES[i + 1]), Index(freqs[i + 1][1])>>
              knownj == <<Index(known[j + 1][1]), Index(known[j + 1][2])>>
          IN \E soln \in {linsolve(knownj, possible)} : Verify(soln)
     ELSE UNCHANGED <<tested, cand, nTried, out, done, last, nEval>>
  /\ \E nxt \in {AfterCell(i, j, Len(known))} : i' = nxt[1] /\ j' = nxt[2]
  /\ UNCHANGED <<pc, ciph, known, rest, tie, freqs, vigVars, toolVars>>

\* tier 2 ends
BestTier2Exit ==
  /\ pc = "tier2"
  /\ (i >= 26 \/ done)
  /\ pc' = IF done THEN "exit" ELSE "tier3"
  /\ i' = (IF done THEN i ELSE FirstPair(26)[1])
  /\ j' = (IF done THEN j ELSE FirstPair(26)[2])
  /\ UNCHANGED <<ciph, known, done, out, last, nEval, bestVars, tie, vigVars, toolVars>>

\* tier 3, one pass of the inner loop body: frequency ranks i and j
BestTier3Step ==
  /\ pc = "tier3"
  /\ i < 26 /\ ~done
  /\ LET possible1 == <<Index(FREQUENCIES[i + 1]), Index(freqs[i + 1][1])>>
         possible2 == <<Index(FREQUENCIES[j + 1]), Index(freqs[j + 1][1])>>
     IN \E soln \in {linsolve(possible1, possible2)} : Verify(soln)
  /\ \E nxt \in {AfterPair(i, j, 26)} : i' = nxt[1] /\ j' = nxt[2]
  /\ UNCHANGED <<pc, ciph, known, rest, tie, freqs, vigVars, toolVars>>

\* tier 3 ends
BestTier3Exit ==
  /\ pc = "tier3"
  /\ (i >= 26 \/ done)
  /\ pc' = "exit"
  /\ UNCHANGED <<ciph, known, i, j, done, out, last, nEval, bestVars, tie, vigVars, toolVars>>

NextBest ==
  \/ BestTier1Step \/ BestTier1Exit
  \/ BestFreq
  \/ BestTier2Step \/ BestTier2Exit
  \/ BestTier3Step \/ BestTier3Exit

SpecBest == InitBest /\ [][NextBest]_vars

\* either affine cracker: mode -ca or mode -cb
InitAffine == InitAll \/ InitBest

NextAffine == NextAll \/ NextBest

SpecAffine == InitAffine /\ [][NextAffine]_vars

(***************************************************************************)
(* tool_vigenerecipher: main, mode Crack (-c n)                            *)
(***************************************************************************)
\* FREQUENCIES of constants_vigenere, in thousandths: .082, .015, .028, ...
FREQUENCIES_V ==
  <<82, 15, 28, 43, 127, 22, 20, 61, 70, 2,
    8, 40, 24, 67, 75, 19, 1, 60, 63, 91,
    28, 10, 23, 1, 20, 1>>

\* the sample is read line by line while it holds fewer symbols than this
SampleCap == 2000

\* the symbols of a line that go to the sample: lower-cased letters
Filtered(line) ==
  SelectSeq([k \in 1..Len(line) |-> tolower(line[k])], LAMBDA c : Find(ALPHABET, c) /= 0)

\* number of places where c matches itself shifted by 1, whatever len
MatchesAdjacent(c, len) == Cardinality({k \in 1..(Len(c) - 1) : c[k] = c[k + 1]})

\* number of places where c matches itself shifted by len
Matches(c, len) == Cardinality({k \in 1..(Len(c) - len) : c[k] = c[k + len]})

\* every len-th symbol of c from its first symbol on, whatever the offset
ColumnFromZero(c, len, start) ==
  [n \in 1..((Len(c) + len - 1) \div len) |-> c[(n - 1) * len + 1]]

\* ciph_: every len-th symbol of c from offset start on
Column(c, len, start) ==
  [n \in 1..((Len(c) - start + len - 1) \div len) |-> c[start + (n - 1) * len + 1]]

\* A double is modelled by a fraction <<n, d>>; d = 0 is NaN.
NaN == <<0, 0>>

\* x >= y on doubles: false when either is NaN
GtOrEqual(x, y) ==
  /\ x[2] /= 0 /\ y[2] /= 0
  /\ IF x[2] = y[2] THEN x[1] >= y[1] ELSE x[1] * y[2] >= y[1] * x[2]

\* x > y on doubles: false when either is NaN
Gt(x, y) ==
  /\ x[2] /= 0 /\ y[2] /= 0
  /\ IF x[2] = y[2] THEN x[1] > y[1] ELSE x[1] * y[2] > y[1] * x[2]

\* freqs[i].second / (double)ciph_.size()
Ratio(count, size) == IF size = 0 THEN NaN ELSE <<count, size>>

\* the indices freqs[i].first - 'a' the 26 writes to W use
WIndices(top) == {top[k][1] - 97 : k \in 1..26}

\* W after the 26 writes W[freqs[i].first - 'a'] = freqs[i].second / size,
\* as the sequence of its 26 entries (entry n + 1 here is W[n]);
\* an entry no write reaches keeps its initial 0
WVector(top, size) ==
  SubSeq([n \in 1..26 |->
            IF \E k \in 1..26 : top[k][1] - 97 = n - 1
            THEN Ratio(top[CHOOSE k \in 1..26 : top[k][1] - 97 = n - 1][2], size)
            ELSE <<0, 1>>], 1, 26)

\* the first index into FREQUENCIES for shift s, taken as s itself
FirstFreqForward(s) == s % 26

\* int freq = (26 - i) % 26
FirstFreq(s) == (26 - s) % 26

\* the inner loop: dot += FREQUENCIES[freq] * W[j], freq = (freq + 1) % 26;
\* the sum of the numerators, in thousandths
RECURSIVE dotLoop(_, _, _)
dotLoop(W, n, freq) ==
  IF n >= 26 THEN 0
  ELSE FREQUENCIES_V[freq + 1] * W[n + 1][1] + dotLoop(W, n + 1, (freq + 1) % 26)

\* dot for shift s: NaN as soon as one entry of W is NaN
dot(W, size, s) ==
  IF \E n \in 1..26 : W[n][2] = 0 THEN NaN
  ELSE <<dotLoop(W, 0, FirstFreq(s)), 1000 * (IF size = 0 THEN 1 ELSE size)>>

\* the values of dot for the shifts 0 to 25, in this order
Dots(W, size) == SubSeq([s \in 1..26 |-> dot(W, size, s - 1)], 1, 26)

\* the search loop over the shifts from s on: <<maxDot, maxShift>>;
\* maxShift = -1 stands for the value never assigned
RECURSIVE search(_, _, _, _)
search(dots, s, maxDot, maxShift) ==
  IF s >= 26 THEN <<maxDot, maxShift>>
  ELSE IF Gt(dots[s + 1], maxDot) THEN search(dots, s + 1, dots[s + 1], s)
  ELSE search(dots, s + 1, maxDot, maxShift)

\* the first 26 entries of the sorted frequency table of the column
TopFreqs(ciph_, t) ==
  SubSeq(sortFreqs(countFrequencies(ciph_, EmptyTable, "vigenere", 1), t), 1, 26)

\* the shift search on the dot products of the column
ColumnShift(ciph_, top, dots) ==
  [column |-> ciph_,
   outside |-> WIndices(top) \ (0..25),
   dots |-> dots,
   maxShift |-> search(dots, 0, <<0, 1>>, -1)[2]]

\* the dot products of the column from its frequency table
ColumnScores(ciph_, top) ==
  ColumnShift(ciph_, top, Dots(WVector(top, Len(ciph_)), Len(ciph_)))

\* the frequency analysis of the column
ColumnFreqs(ciph_, t) == ColumnScores(ciph_, TopFreqs(ciph_, t))

\* the body of the loop over start for one column
ColumnResult(c, len, start, t) == ColumnFreqs(Column(c, len, start), t)

\* what ALPHABET[maxShift] may yield for a maxShift never assigned: the
\* letter of shift 0 or a byte that is no letter
GarbageSyms == {97, 0}

\* lines of the input stream: "a", "Ba", "ab", "!"
VigLines == {<<97>>, <<66, 97>>, <<97, 98>>, <<33>>}
MaxLines == 3
MaxKeyMax == 3

InitVig ==
  /\ pc = "read"
  /\ lines \in SeqsUpTo(VigLines, MaxLines)
  /\ key_max \in 0..MaxKeyMax
  /\ tie \in TieOrders
  /\ ciph = <<>>
  /\ guessLengths = <<>>
  /\ guessMatches = 0
  /\ g = 0
  /\ key = <<>>
  /\ col = <<>>
  /\ scores = <<>>
  /\ ub = FALSE
  /\ i = 0
  /\ j = 0
  /\ out = <<>>
  /\ known = <<>>
  /\ done = FALSE
  /\ last = <<>>
  /\ nEval = 0
  /\ rest = <<>>
  /\ freqs = <<>>
  /\ tested = {}
  /\ cand = <<>>
  /\ nTried = 0
  /\ ToolsIdle

affineVars == <<known, done, last, nEval, rest, freqs, tested, cand, nTried>>

\* one pass of the reading loop: a line is read and its letters are kept
VigRead ==
  /\ pc = "read"
  /\ lines /= <<>> /\ Len(ciph) < SampleCap
  /\ ciph' = ciph \o Filtered(Head(lines))
  /\ lines' = Tail(lines)
  /\ UNCHANGED <<pc, i, j, out, tie, key_max, guessLengths, guessMatches, g, key, col,
                 scores, ub, affineVars, toolVars>>

\* the reading loop ends: the stream is used up or the sample is large enough
VigReadEnd ==
  /\ pc = "read"
  /\ (lines = <<>> \/ Len(ciph) >= SampleCap)
  /\ pc' = "lengths"
  /\ i' = 1
  /\ UNCHANGED <<ciph, j, out, tie, lines, key_max, guessLengths, guessMatches, g, key, col,
                 scores, ub, affineVars, toolVars>>

\* the update with the first of the tied lengths only
RetainFirstOnly(lengths, best, len, matches) ==
  IF matches > best THEN <<(<<len>>), matches>> ELSE <<lengths, best>>

\* the update of the best guesses by length len with its number of matches:
\* <<guessLengths, guessMatches>> afterwards
Retain(lengths, best, len, matches) ==
  IF matches > best THEN <<(<<len>>), matches>>
  ELSE IF matches = best THEN <<Append(lengths, len), best>>
  ELSE <<lengths, best>>

\* one pass of the loop over the key lengths: length i
VigLength ==
  /\ pc = "lengths"
  /\ i <= key_max
  /\ \E r \in {Retain(guessLengths, guessMatches, i, Matches(ciph, i))} :
       /\ guessLengths' = r[1]
       /\ guessMatches' = r[2]
  /\ i' = i + 1
  /\ UNCHANGED <<pc, ciph, j, out, tie, lines, key_max, g, key, col, scores, ub, affineVars, toolVars>>

\* the loop over the key lengths ends
VigLengthsEnd ==
  /\ pc = "lengths"
  /\ i > key_max
  /\ pc' = "keys"
  /\ g' = 1
  /\ j' = 0
  /\ UNCHANGED <<ciph, i, out, tie, lines, key_max, guessLengths, guessMatches, key, col,
                 scores, ub, affineVars, toolVars>>

\* the pass of the loop over start that comes next, if any
ColumnPending ==
  /\ pc = "keys"
  /\ g <= Len(guessLengths)
  /\ j < guessLengths[g]

\* what key += ALPHABET[maxShift] may append after the shift search r
Emitted(r) == IF r.maxShift = -1 THEN GarbageSyms ELSE {ALPHABET[r.maxShift + 1]}

\* the pass with result r has undefined behaviour: a write outside W or the
\* use of a maxShift never assigned
Undefined(r) == r.outside /= {} \/ r.maxShift = -1

\* one pass of the loop over start: the key symbol of column j of length
\* guessLengths[g].  A write outside W and the use of a maxShift never assigned
\* are undefined: the run goes on (with any symbol for such a maxShift) or dies.
VigColumn ==
  /\ ColumnPending
  /\ \E r \in {ColumnResult(ciph, guessLengths[g], j, tie)} :
       /\ \E sym \in Emitted(r) : key' = Append(key, sym)
       /\ col' = r.column
       /\ scores' = r.dots
       /\ ub' = (ub \/ Undefined(r))
  /\ j' = j + 1
  /\ UNCHANGED <<pc, ciph, i, out, tie, lines, key_max, guessLengths, guessMatches, g, affineVars, toolVars>>

\* the same pass when its undefined behaviour ends the run
VigCrash ==
  /\ ColumnPending
  /\ \E r \in {ColumnResult(ciph, guessLengths[g], j, tie)} : Undefined(r)
  /\ ub' = TRUE
  /\ pc' = "crashed"
  /\ UNCHANGED <<ciph, i, j, out, tie, lines, key_max, guessLengths, guessMatches, g, key,
                 col, scores, affineVars, toolVars>>

\* the key of length guessLengths[g] is complete and printed
VigPrint ==
  /\ pc = "keys"
  /\ g <= Len(guessLengths)
  /\ j >= guessLengths[g]
  /\ out' = Append(out, key)
  /\ key' = <<>>
  /\ g' = g + 1
  /\ j' = 0
  /\ UNCHANGED <<pc, ciph, i, tie, lines, key_max, guessLengths, guessMatches, col, scores,
                 ub, affineVars, toolVars>>

\* the loop over guessLengths ends
VigExit ==
  /\ pc = "keys"
  /\ g > Len(guessLengths)
  /\ pc' = "exit"
  /\ UNCHANGED <<ciph, i, j, out, tie, lines, key_max, guessLengths, guessMatches, g, key,
                 col, scores, ub, affineVars, toolVars>>

NextVig ==
  \/ VigRead \/ VigReadEnd
  \/ VigLength \/ VigLengthsEnd
  \/ VigColumn \/ VigCrash
  \/ VigPrint \/ VigExit

SpecVig == InitVig /\ [][NextVig]_vars

(***************************************************************************)
(* tool_vigenerecipher, mode Crack, on one line that is the encryption of  *)
(* a known plaintext under a known key                                     *)
(***************************************************************************)
\* n times the symbol c
Repeat(c, n) == [k \in 1..n |-> c]

\* the letters from the n-th on, each as often as the thousandths of its
\* reference frequency: 82 times 'a', 15 times 'b', ...
RECURSIVE ProfileFrom(_)
ProfileFrom(n) ==
  IF n > 26 THEN <<>>
  ELSE Repeat(ALPHABET[n], FREQUENCIES_V[n]) \o ProfileFrom(n + 1)

ProfileColumn == ProfileFrom(1)

\* a plaintext each of whose L columns is ProfileColumn
ProfilePlain(L) ==
  [q \in 1..(L * Len(ProfileColumn)) |-> ProfileColumn[((q - 1) \div L) + 1]]

\* "abab...", n symbols
Alternating(n) == [q \in 1..n |-> ALPHABET[((q - 1) % 2) + 1]]

\* the vigenere encryption of a text of letters: cipher = plain + key mod 26
VigEncrypt(plain, K) ==
  [q \in 1..Len(plain) |->
     ALPHABET[(((plain[q] - 97) + (K[((q - 1) % Len(K)) + 1] - 97)) % 26) + 1]]

\* keys "k", "z", "ke"
TrueKeys == {<<107>>, <<122>>, <<107, 101>>}

\* plaintexts: the profile in one and in two columns, "abab..." of 40 symbols
KnownPlains == {ProfilePlain(1), ProfilePlain(2), Alternating(40)}

\* input streams of one line, the encryption of a plaintext under a key
EncryptedLines == {<<SubSeq(VigEncrypt(p, K), 1, Len(p))>> : p \in KnownPlains, K \in TrueKeys}

InitKey ==
  /\ pc = "read"
  /\ lines \in EncryptedLines
  /\ key_max \in 1..MaxKeyMax
  /\ tie \in TieOrders
  /\ ciph = <<>>
  /\ guessLengths = <<>>
  /\ guessMatches = 0
  /\ g = 0
  /\ key = <<>>
  /\ col = <<>>
  /\ scores = <<>>
  /\ ub = FALSE
  /\ i = 0
  /\ j = 0
  /\ out = <<>>
  /\ known = <<>>
  /\ done = FALSE
  /\ last = <<>>
  /\ nEval = 0
  /\ rest = <<>>
  /\ freqs = <<>>
  /\ tested = {}
  /\ cand = <<>>
  /\ nTried = 0
  /\ ToolsIdle

SpecKey == InitKey /\ [][NextVig]_vars

(***************************************************************************)
(* main, mode Crack_Best (-cb), on a long stream and on a stream with a    *)
(* symbol that is no letter                                                *)
(***************************************************************************)
\* the rest of the stream: 123 times 'n', 124 times 'n', "{n"
CountRests == {SubSeq(Repeat(110, 123), 1, 123), SubSeq(Repeat(110, 124), 1, 124), <<123, 110>>}

InitCount ==
  /\ pc = "tier1"
  /\ ciph \in {<<>>, <<105>>}
  /\ rest \in CountRests
  /\ known \in SeqsUpTo(KnownPairs, MaxKnown)
  /\ tie \in TieOrders
  /\ i = FirstPair(Len(known))[1]
  /\ j = FirstPair(Len(known))[2]
  /\ done = FALSE
  /\ out = <<>>
  /\ last = <<>>
  /\ nEval = 0
  /\ freqs = <<>>
  /\ tested = {}
  /\ cand = <<>>
  /\ nTried = 0
  /\ VigIdle
  /\ ToolsIdle

SpecCount == InitCount /\ [][NextBest]_vars

(***************************************************************************)
(* linsolve applied to two pairs of residues                               *)
(***************************************************************************)
\* the residues the y of the first pair is drawn from
FirstYs == {0, 3, 8}

\* the pairs <<x1, y1>>, <<x2, y2>> linsolve is applied to
LinsolveArgs == {<<<<x1, y1>>, <<x2, y2>>>> : x1 \in 0..25, y1 \in FirstYs, x2 \in 0..25, y2 \in 0..25}

InitLinsolve ==
  /\ pc = "linsolve"
  /\ args \in LinsolveArgs
  /\ result = <<>>
  /\ ciph = <<>>
  /\ known = <<>>
  /\ i = 0
  /\ j = 0
  /\ done = FALSE
  /\ out = <<>>
  /\ last = <<>>
  /\ nEval = 0
  /\ rest = <<>>
  /\ tie = "index"
  /\ freqs = <<>>
  /\ tested = {}
  /\ cand = <<>>
  /\ nTried = 0
  /\ VigIdle
  /\ files = <<>>
  /\ frequencies = <<>>
  /\ total = 0
  /\ BbsIdle

\* the call linsolve(p1, p2)
Linsolve ==
  /\ pc = "linsolve"
  /\ result' = linsolve(args[1], args[2])
  /\ pc' = "exit"
  /\ UNCHANGED <<args, ciph, known, i, j, done, out, last, nEval, bestVars, tie, vigVars, freqVars,
                 bbsVars>>

SpecLinsolve == InitLinsolve /\ [][Linsolve]_vars

(***************************************************************************)
(* tool_frequencyanalysis: main                                            *)
(***************************************************************************)
\* contents of the files of the command line: "", "a", "ab", "Aab"
FreqTexts == {<<>>, <<97>>, <<97, 98>>, <<65, 97, 98>>}

\* a file of the command line: one that opens, with its contents, or one that
\* does not
FreqFiles ==
  {[readable |-> TRUE, text |-> t] : t \in FreqTexts} \cup {[readable |-> FALSE, text |-> <<>>]}

MaxFiles == 2

\* vector<frequency_count> frequencies(255): letter = i++, count = 0, percent = 0
ZeroCounts == [e \in 0..254 |-> <<EntryChar(e), 0, <<0, 1>>>>] @@ <<>>

InitFreq ==
  /\ pc = "freq_args"
  /\ files \in SeqsUpTo(FreqFiles, MaxFiles)
  /\ tie \in TieOrders
  /\ frequencies = <<>>
  /\ total = 0
  /\ args = <<>>
  /\ result = <<>>
  /\ BbsIdle
  /\ ciph = <<>>
  /\ i = 0
  /\ j = 0
  /\ out = <<>>
  /\ known = <<>>
  /\ done = FALSE
  /\ last = <<>>
  /\ nEval = 0
  /\ rest = <<>>
  /\ freqs = <<>>
  /\ tested = {}
  /\ cand = <<>>
  /\ nTried = 0
  /\ VigIdle

\* the variables the frequency tool leaves alone
crackVars == <<ciph, i, j, affineVars, vigVars, pureVars, bbsVars>>

\* main up to the loop over the files: without a file the usage is printed
\* and main returns 1
FreqArgs ==
  /\ pc = "freq_args"
  /\ IF Len(files) = 0
     THEN pc' = "exit" /\ UNCHANGED frequencies
     ELSE pc' = "freq_files" /\ frequencies' = ZeroCounts
  /\ UNCHANGED <<files, total, out, tie, crackVars>>

\* one pass of the loop over the files: a file that opens is counted
FreqFile ==
  /\ pc = "freq_files"
  /\ files /= <<>>
  /\ frequencies' = IF Head(files).readable
                    THEN countFrequencies(Head(files).text, frequencies, "frequency", 1)
                    ELSE frequencies
  /\ files' = Tail(files)
  /\ UNCHANGED <<pc, total, out, tie, crackVars>>

\* the sum of the counts of the entries lo to hi of the table (the range is
\* split in two to keep the nesting of the evaluation shallow)
RECURSIVE SumCounts(_, _, _)
SumCounts(tbl, lo, hi) ==
  IF lo > hi THEN 0
  ELSE IF lo = hi THEN tbl[lo][2]
  ELSE SumCounts(tbl, lo, (lo + hi) \div 2) + SumCounts(tbl, ((lo + hi) \div 2) + 1, hi)

\* the fraction of the total without the factor 100
PercentOfOne(count, sum) == Ratio(count, sum)

\* f.count / (double)total * 100
Percent(count, sum) == Ratio(count * 100, sum)

\* sort(frequencies.begin(), frequencies.end(), l.percent > r.percent): the
\* percentages of a table are in the order of its counts; when they are all
\* NaN no entry compares greater than another
sortPercents(tbl, t) ==
  IF \A e \in DOMAIN tbl : tbl[e][3] = NaN
  THEN Permuted(tbl, Ord(t))
  ELSE sortFreqs(tbl, t)

\* the loop over the files ends: the total, the percentages and the sort
FreqSort ==
  /\ pc = "freq_files"
  /\ files = <<>>
  /\ \E sum \in {SumCounts(frequencies, 0, 254)} :
       /\ total' = sum
       /\ frequencies' =
            sortPercents([e \in 0..254 |->
                            <<frequencies[e][1], frequencies[e][2], Percent(frequencies[e][2], sum)>>],
                         tie)
  /\ pc' = "freq_print"
  /\ UNCHANGED <<files, out, tie, crackVars>>

\* the loop that prints the entries with a count
FreqPrint ==
  /\ pc = "freq_print"
  /\ out' = SelectSeq(frequencies, LAMBDA f : f[2] /= 0)
  /\ pc' = "exit"
  /\ UNCHANGED <<files, frequencies, total, tie, crackVars>>

NextFreq == FreqArgs \/ FreqFile \/ FreqSort \/ FreqPrint

SpecFreq == InitFreq /\ [][NextFreq]_vars

\* the frequency tool or the vigenere crack
InitProfiler == InitFreq \/ InitVig

NextProfiler == NextFreq \/ NextVig

SpecProfiler == InitProfiler /\ [][NextProfiler]_vars

(***************************************************************************)
(* tool_bbscipher: main, processArgs and runCommandGroup.  A file name is  *)
(* a sequence of its parts, "." being a part of its own.                   *)
(***************************************************************************)
\* s.rfind("."): the position of the last "." of s, 0 where rfind returns npos
LastDot(s) ==
  IF \E k \in 1..Len(s) : s[k] = "."
  THEN CHOOSE k \in 1..Len(s) : s[k] = "." /\ \A m \in (k + 1)..Len(s) : s[m] /= "."
  ELSE 0

\* fileBase that returns the whole name
fileBaseWhole(s) == s

\* fileBase(s): s.substr(0, s.rfind("."))
fileBase(s) == IF LastDot(s) = 0 THEN s ELSE SubSeq(s, 1, LastDot(s) - 1)

\* file names of the command line: "a", "a.enc", "a.b", "a.b.t"
FileNames == {<<"a">>, <<"a", ".", "enc">>, <<"a", ".", "b">>, <<"a", ".", "b", ".", "t">>}

\* the command -e or -d on the file f, followed by v of the values p q x
\* (fewer than three parse as none)
FileCmd(t, f, v) == [type |-> t, fileName |-> f, values |-> v]

\* the commands of the command line: -e a, -d a.enc, -e a.b, -e a.b.t,
\* -e a p q x and -g n
BbsCommands ==
  {FileCmd("e", <<"a">>, 0), FileCmd("d", <<"a", ".", "enc">>, 0),
   FileCmd("e", <<"a", ".", "b">>, 0), FileCmd("e", <<"a", ".", "b", ".", "t">>, 0),
   FileCmd("e", <<"a">>, 3), [type |-> "g", fileName |-> <<>>, values |-> 0]}

MaxCmds == 3

\* processArgs returns true: after the third value of a command i is left on
\* that value, which is then taken for a command and rejected; without any
\* command both groups are empty
Accepted(av) == Len(av) > 0 /\ \A n \in 1..Len(av) : av[n].values < 3

\* the group a command is put in: generateCmds, or fileCmds[fileBase(fileName)]
GroupKey(c) == IF c.type = "g" THEN <<"generate">> ELSE <<"file">> \o fileBase(c.fileName)

\* the queue of the group k: its commands in the order of the command line
QueueOf(av, k) ==
  SelectSeq([n \in 1..Len(av) |-> [pos |-> n, cmd |-> av[n]]], LAMBDA e : GroupKey(e.cmd) = k)

\* the groups of the command line
Keys(av) == {GroupKey(av[n]) : n \in 1..Len(av)}

\* the orders the threads may be started in: the generate group first, the
\* groups of fileOps in the order the unordered_map is iterated in
StartOrders(av) ==
  {sq \in [1..Cardinality(Keys(av)) -> Keys(av)] :
     /\ \A m, n \in 1..Cardinality(Keys(av)) : m /= n => sq[m] /= sq[n]
     /\ <<"generate">> \in Keys(av) => sq[1] = <<"generate">>}

\* the file a command reads and the file it writes
ReadPath(c) == c.fileName
WritePath(c) == fileBase(c.fileName) \o <<".", IF c.type = "e" THEN "enc" ELSE "dec">>

\* what runCommand may return: generatePrimes returns true, encodeFile false
\* when the engine or a file cannot be set up
Outcomes(c) == IF c.type = "g" THEN {TRUE} ELSE {TRUE, FALSE}

\* a line of the results of the group k
Line(k, text, pos) == [grp |-> k, text |-> text, pos |-> pos]

\* the lines pushed before the loop over the commands
Header(k, q) == IF q[1].cmd.fileName /= <<>> THEN <<Line(k, "LINE", 0), Line(k, "File", 0)>> ELSE <<>>

\* wait_for that always finds the future ready
ReadyAlways(state) == TRUE

\* fut.wait_for(100 ms) == future_status::ready
Ready(state) == state = "finished"

InitBbs ==
  /\ pc = "bbs_args"
  /\ argv \in SeqsUpTo(BbsCommands, MaxCmds)
  /\ groups = <<>>
  /\ threads = <<>>
  /\ i = 0
  /\ j = 0
  /\ done = FALSE
  /\ out = <<>>
  /\ ciph = <<>>
  /\ known = <<>>
  /\ last = <<>>
  /\ nEval = 0
  /\ rest = <<>>
  /\ tie = "index"
  /\ freqs = <<>>
  /\ tested = {}
  /\ cand = <<>>
  /\ nTried = 0
  /\ VigIdle
  /\ files = <<>>
  /\ frequencies = <<>>
  /\ total = 0
  /\ args = <<>>
  /\ result = <<>>

\* the variables the bbs tool leaves alone
otherVars == <<ciph, known, j, last, nEval, bestVars, tie, vigVars, freqVars, pureVars>>

\* main up to the polling loop: processArgs, then one thread per group
BbsArgs ==
  /\ pc = "bbs_args"
  /\ IF Accepted(argv)
     THEN /\ groups' = [k \in Keys(argv) |->
                          [queue |-> QueueOf(argv, k), results |-> <<>>, state |-> "new"]]
          /\ threads' \in {[n \in 1..Len(sq) |-> [grp |-> sq[n], printed |-> FALSE]] :
                             sq \in StartOrders(argv)}
          /\ pc' = "bbs_poll"
          /\ done' = TRUE
     ELSE /\ pc' = "usage"
          /\ UNCHANGED <<groups, threads, done>>
  /\ UNCHANGED <<argv, i, out, otherVars>>

\* runCommandGroup up to the call of runCommand for the command at the front
BbsBegin(k) ==
  /\ k \in DOMAIN groups
  /\ groups[k].state \in {"new", "ready"}
  /\ groups' = [groups EXCEPT ![k].state = "running",
                              ![k].results = @ \o (IF groups[k].state = "new"
                                                   THEN Header(k, groups[k].queue) ELSE <<>>)
                                               \o <<Line(k, "LINE", 0)>>]
  /\ UNCHANGED <<pc, argv, threads, i, done, out, otherVars>>

\* runCommand returns: the group ends on a failure and with its last command
BbsEnd(k) ==
  /\ k \in DOMAIN groups
  /\ groups[k].state = "running"
  /\ \E ok \in Outcomes(groups[k].queue[1].cmd) :
       groups' = [groups EXCEPT
                    ![k].results = Append(@, Line(k, IF ok THEN "done" ELSE "failed",
                                                 groups[k].queue[1].pos)),
                    ![k].queue = IF ok THEN Tail(@) ELSE @,
                    ![k].state = IF ok /\ Len(groups[k].queue) > 1 THEN "ready" ELSE "finished"]
  /\ UNCHANGED <<pc, argv, threads, i, done, out, otherVars>>

\* one pass of the loop over threads in the polling loop
BbsPoll ==
  /\ pc = "bbs_poll"
  /\ i < Len(threads)
  /\ IF threads[i + 1].printed
     THEN UNCHANGED <<threads, out, done>>
     ELSE IF Ready(groups[threads[i + 1].grp].state)
     THEN /\ out' = out \o groups[threads[i + 1].grp].results
          /\ threads' = [threads EXCEPT ![i + 1].printed = TRUE]
          /\ UNCHANGED done
     ELSE /\ done' = FALSE
          /\ UNCHANGED <<threads, out>>
  /\ i' = i + 1
  /\ UNCHANGED <<pc, argv, groups, otherVars>>

\* the end of a pass of the polling loop: while(!done)
BbsAgain ==
  /\ pc = "bbs_poll"
  /\ i = Len(threads)
  /\ IF done
     THEN pc' = "exit" /\ UNCHANGED <<i, done>>
     ELSE pc' = pc /\ i' = 0 /\ done' = TRUE
  /\ UNCHANGED <<argv, groups, threads, out, otherVars>>

\* the groups a command line can give
AllKeys == {<<"generate">>} \cup {<<"file">> \o fileBase(f) : f \in FileNames}

NextBbs ==
  \/ BbsArgs
  \/ \E k \in AllKeys : BbsBegin(k)
  \/ \E k \in AllKeys : BbsEnd(k)
  \/ BbsPoll
  \/ BbsAgain

SpecBbs == InitBbs /\ [][NextBbs]_vars

\* every thread that can take a step takes one, and so does main: the
\* commands terminate and the threads are scheduled
FairSpecBbs ==
  /\ SpecBbs
  /\ WF_vars(BbsArgs) /\ WF_vars(BbsPoll) /\ WF_vars(BbsAgain)
  /\ \A k \in AllKeys : WF_vars(BbsBegin(k)) /\ WF_vars(BbsEnd(k))

(***************************************************************************)
(* Properties of the brute-force crack and of checkSoln                    *)
(***************************************************************************)
\* the 312 valid keys
ValidKeys == {k \in (1..25) \X (0..25) : gcd(k[1], 26) = 1}

\* lexicographic order of candidates <<a, b, ...>>
Before(r, s) == r[1] < s[1] \/ (r[1] = s[1] /\ r[2] < s[2])

\* the candidate that follows <<a, b>> in the order a ascending, b ascending
NextKey(r) ==
  IF r[2] < 25 THEN <<r[1], r[2] + 1>>
  ELSE <<CHOOSE a \in (r[1]+1)..25 :
           gcd(a, 26) = 1 /\ \A x \in (r[1]+1)..(a-1) : gcd(x, 26) /= 1, 0>>

\* C1: no printed row of the brute-force crack is a candidate that checkSoln
\* scores -1 against the known pairs; every printed row scores 0, 1 or 2.
\* (Each row is the newest row in the state that follows its printing.)
C1_NoRejectedRow ==
  out /= <<>> =>
    LET r == out[Len(out)]
    IN /\ checkSoln(r[1], r[2], ciph, known)[1] \in {0, 1, 2}
       /\ r[3] = decrypt(r[1], r[2], ciph)

\* a run that printed some candidates and rejected others
C1_Witness == Len(out) >= 1 /\ nEval > Len(out) /\ last[3] = -1

\* C2, state part: rows are printed in candidate order, a candidate that
\* scores 2 is the last row, and the search ends either on a score of 2 or
\* after all 312 candidates.
C2_State ==
  /\ Len(out) >= 2 => Before(out[Len(out) - 1], out[Len(out)])
  /\ (last /= <<>> /\ last[3] = 2) =>
        /\ out /= <<>>
        /\ out[Len(out)][1] = last[1] /\ out[Len(out)][2] = last[2]
  /\ pc = "exit" => (last /= <<>> /\ (last[3] = 2 \/ nEval = 312))

\* C2, step part: candidates are evaluated one by one in the order a
\* ascending then b ascending, starting at (1, 0), and nothing is evaluated or
\* printed once a candidate scored 2.
C2_Step ==
  /\ (last /= <<>> /\ last[3] = 2) => UNCHANGED <<out, last, nEval>>
  /\ nEval' /= nEval =>
        /\ nEval' = nEval + 1
        /\ <<last'[1], last'[2]>> = IF last = <<>> THEN <<1, 0>> ELSE NextKey(last)
  /\ out' /= out => (nEval' = nEval + 1 /\ Len(out') = Len(out) + 1)

\* C2: the brute-force crack evaluates candidates in the order a ascending,
\* b ascending, and stops the whole double loop at the first candidate that
\* scores 2, which is the last row printed.
C2_OrderAndStop == [](C2_State) /\ [][C2_Step]_vars

\* a search that stopped early on a score of 2 after printing other rows
C2_Witness == pc = "exit" /\ last[3] = 2 /\ nEval < 312 /\ Len(out) >= 2

\* the known pair p is correct for the key k: p[2] = k[1] * p[1] + k[2]
CorrectPair(k, p) ==
  /\ p[1] \in 97..122
  /\ p[2] = encryptChar(k[1], k[2], p[1])

\* the known pairs pin down one key: no two of them have plaintext symbols
\* that are equal or 13 apart
NonDegenerate(kn) ==
  \A m, n \in 1..Len(kn) : m < n => (kn[n][1] - kn[m][1]) % 13 /= 0

\* c is a line that encryption with the key k produces
EncryptedWith(k, c) ==
  c = [n \in 1..Len(c) |-> encryptChar(k[1], k[2], decryptChar(inverseMod(k[1], 26), k[2], c[n]))]

\* the key k has at least two correct, non-degenerate known pairs for line c
C3_Case(k) ==
  /\ Len(known) >= 2
  /\ \A n \in 1..Len(known) : CorrectPair(k, known[n])
  /\ NonDegenerate(known)
  /\ EncryptedWith(k, ciph)

\* the row of key k was printed
Printed(k) == \E n \in 1..Len(out) : out[n][1] = k[1] /\ out[n][2] = k[2]

\* number of known pairs whose plaintext symbol occurs in the text msg
Occurring(msg) == Cardinality({n \in 1..Len(known) : \E x \in 1..Len(msg) : msg[x] = known[n][1]})

\* C3 as stated: with at least two correct, non-degenerate known pairs the
\* row of the true key is printed and the true key scores 2.
C3_AsStated ==
  pc = "exit" =>
    \A k \in ValidKeys :
      C3_Case(k) => (Printed(k) /\ checkSoln(k[1], k[2], ciph, known)[1] = 2)

\* C3, amended: with at least two correct, non-degenerate known pairs of
\* which at least two have a plaintext symbol that occurs in the plaintext
\* line, the row of the true key is printed and the true key scores 2.
C3_TrueKeyFound ==
  pc = "exit" =>
    \A k \in ValidKeys :
      (C3_Case(k) /\ Occurring(decrypt(k[1], k[2], ciph)) >= 2)
        => (Printed(k) /\ checkSoln(k[1], k[2], ciph, known)[1] = 2)

\* the true key (5, 8) found from the pairs a->i, b->n
C3_Witness ==
  /\ pc = "exit"
  /\ C3_Case(<<5, 8>>)
  /\ Occurring(decrypt(5, 8, ciph)) >= 2
  /\ Printed(<<5, 8>>)
  /\ last = <<5, 8, 2>>

\* position of the first occurrence of symbol x in text msg (0: none)
FirstAt(msg, x) ==
  IF \E n \in 1..Len(msg) : msg[n] = x
  THEN CHOOSE n \in 1..Len(msg) : msg[n] = x /\ \A m \in 1..(n-1) : msg[m] /= x
  ELSE 0

\* known pair n occurs in the text decrypted by the latest candidate and the
\* ciphertext symbol at that position is the pair's cipher symbol
Matched(msg, n) ==
  FirstAt(msg, known[n][1]) /= 0 /\ ciph[FirstAt(msg, known[n][1])] = known[n][2]

\* known pair n occurs in the decrypted text with another ciphertext symbol
Contradicted(msg, n) ==
  FirstAt(msg, known[n][1]) /= 0 /\ ciph[FirstAt(msg, known[n][1])] /= known[n][2]

MatchCount(msg, upto) == Cardinality({n \in 1..upto : Matched(msg, n)})

Min2(n) == IF n >= 2 THEN 2 ELSE n

\* C7 as stated: whenever some known pair is contradicted the score is -1,
\* otherwise it is the number of matched pairs capped at 2.
C7_AsStated ==
  last /= <<>> =>
    LET msg == decrypt(last[1], last[2], ciph)
    IN last[3] = IF \E n \in 1..Len(known) : Contradicted(msg, n)
                 THEN -1
                 ELSE Min2(MatchCount(msg, Len(known)))

\* C7, amended: the score is -1 exactly when some known pair is contradicted
\* and fewer than two pairs before it in the list matched; otherwise it is the
\* number of matched pairs capped at 2.
C7_Score ==
  last /= <<>> =>
    LET msg == decrypt(last[1], last[2], ciph)
    IN last[3] = IF \E n \in 1..Len(known) :
                       Contradicted(msg, n) /\ MatchCount(msg, n - 1) < 2
                 THEN -1
                 ELSE Min2(MatchCount(msg, Len(known)))

\* a candidate that scored 2 although a later known pair contradicts it
C7_Witness ==
  /\ last /= <<>>
  /\ last[3] = 2
  /\ \E n \in 1..Len(known) : Contradicted(decrypt(last[1], last[2], ciph), n)

(***************************************************************************)
(* Properties of the known-driven crack                                    *)
(***************************************************************************)
\* the key <<a, b>> of an output row or of a scored candidate
KeyOf(r) == <<r[1], r[2]>>

\* the score checkSoln gives the key k on the first line
ScoreOf(k) == checkSoln(k[1], k[2], ciph, known)[1]

\* C4: a candidate of the known-driven crack, whatever tier it was solved in,
\* is printed only if its score against the known pairs is not -1.
\* (Each row is the newest row in the state that follows its printing.)
C4_AsStated == out /= <<>> => ScoreOf(KeyOf(out[Len(out)])) /= -1

\* C5: the known-driven crack has stopped exactly when the latest candidate
\* tried scores 2; a later tier is entered only while no candidate scored 2,
\* and the crack ends without such a candidate only after tier 3 is through.
C5_AsStated ==
  /\ done <=> (cand /= <<>> /\ ScoreOf(cand) = 2)
  /\ pc \in {"freq", "tier2", "tier3"} => (cand = <<>> \/ ScoreOf(cand) /= 2)
  /\ pc = "exit" => ((cand /= <<>> /\ ScoreOf(cand) = 2) \/ (freqs /= <<>> /\ i >= 26))

\* C6, state part: no key appears in two output rows, every printed or
\* scored key is in tested, and tested holds exactly the solutions tried.
C6_State ==
  /\ out /= <<>> =>
       /\ KeyOf(out[Len(out)]) \in tested
       /\ \A n \in 1..(Len(out) - 1) : KeyOf(out[n]) /= KeyOf(out[Len(out)])
  /\ last /= <<>> => KeyOf(last) \in tested
  /\ cand /= <<>> => cand \in tested
  /\ Cardinality(tested) = nTried

\* C6, step part: a solution is printed or scored only in the step that adds
\* it to tested, and it is added only if it was not there before.
C6_Step ==
  /\ nTried' /= nTried =>
       /\ nTried' = nTried + 1
       /\ cand' \notin tested
       /\ tested' = tested \cup {cand'}
  /\ tested' /= tested => nTried' = nTried + 1
  /\ out' /= out =>
       /\ nTried' = nTried + 1
       /\ out' = Append(out, out'[Len(out')])
       /\ KeyOf(out'[Len(out')]) = cand'
  /\ nEval' /= nEval =>
       /\ nTried' = nTried + 1
       /\ nEval' = nEval + 1
       /\ KeyOf(last') = cand'

\* C6: within one known-driven crack each distinct solution is tried at most
\* once across the tiers: tested holds every solution tried, a solution
\* already in it is neither scored nor printed again, and no key is in two rows.
C6_TriedOnce == [](C6_State) /\ [][C6_Step]_vars

\* the solution the pending pass of tier 2 or tier 3 gets from linsolve
Pending ==
  IF pc = "tier2" /\ i < 26 /\ NoConflict(freqs[i + 1], known[j + 1])
  THEN linsolve(<<Index(known[j + 1][1]), Index(known[j + 1][2])>>,
                <<Index(FREQUENCIES[i + 1]), Index(freqs[i + 1][1])>>)
  ELSE IF pc = "tier3" /\ i < 26
  THEN linsolve(<<Index(FREQUENCIES[i + 1]), Index(freqs[i + 1][1])>>,
                <<Index(FREQUENCIES[j + 1]), Index(freqs[j + 1][1])>>)
  ELSE <<0, 0>>

\* a printed solution comes out of the linear solve a second time
C6_Witness ==
  /\ ~done
  /\ Pending[1] /= 0
  /\ \E n \in 1..Len(out) : KeyOf(out[n]) = Pending

(***************************************************************************)
(* Properties of the vigenere crack                                        *)
(***************************************************************************)
\* #{i : i + L < |c| and c[i] = c[i + L]}, i counted from 0
Coincidences(c, L) ==
  Cardinality({n \in 0..(Len(c) - 1) : n + L < Len(c) /\ c[n + 1] = c[n + L + 1]})

MaximalLengths(c, M) ==
  {L \in 1..M : \A K \in 1..M : Coincidences(c, K) <= Coincidences(c, L)}

\* C8: once the loop over the key lengths has ended, guessLengths holds, each
\* once and in ascending order, exactly the lengths in [1, key_max] whose
\* coincidence count on the sample is maximal over [1, key_max]; every tied
\* length is there, also when all counts are 0.
C8_MaximalLengths ==
  pc \in {"keys", "exit", "crashed"} =>
    /\ {guessLengths[n] : n \in 1..Len(guessLengths)} = MaximalLengths(ciph, key_max)
    /\ \A m, n \in 1..Len(guessLengths) : m < n => guessLengths[m] < guessLengths[n]

\* C8 witness: lengths tied on a positive count are retained, another is not
C8_Witness ==
  /\ pc = "exit"
  /\ Len(guessLengths) >= 2
  /\ guessMatches >= 1
  /\ Len(guessLengths) < key_max

\* a score is the maximum over the 26 shifts
IsMaxScore(s) == \A t \in 1..26 : GtOrEqual(scores[s], scores[t])

\* C9 as stated: the key symbol emitted for a column is ALPHABET[s*], s* the
\* smallest shift whose score is the maximum over the 26 shifts.
C9_AsStated ==
  (pc = "keys" /\ key /= <<>>) =>
    \E s \in 1..26 :
      /\ IsMaxScore(s)
      /\ \A t \in 1..(s - 1) : ~IsMaxScore(t)
      /\ key[Len(key)] = ALPHABET[s]

\* number of symbols of the column equal to the j-th letter, j from 0
ColumnCount(n) == Cardinality({k \in 1..Len(col) : col[k] = ALPHABET[n + 1]})

\* sum over j in [n, 26) of reference[(j + s) mod 26] * count of letter j
RECURSIVE SumForward(_, _)
SumForward(s, n) ==
  IF n >= 26 THEN 0
  ELSE FREQUENCIES_V[((s + n) % 26) + 1] * ColumnCount(n) + SumForward(s, n + 1)

\* sum over j in [n, 26) of reference[(j - s) mod 26] * count of letter j
RECURSIVE SumBackward(_, _)
SumBackward(s, n) ==
  IF n >= 26 THEN 0
  ELSE FREQUENCIES_V[((n - s + 26) % 26) + 1] * ColumnCount(n) + SumBackward(s, n + 1)

\* the score is the fraction sum / (1000 * size of the column)
ScoreIs(score, sum) ==
  /\ score[2] /= 0
  /\ score[1] * 1000 * Len(col) = sum * score[2]

\* C10 as stated: the score of shift s is the sum over j of
\* reference[(s + j) mod 26] * columnFreq[j].
C10_AsStated ==
  (scores /= <<>> /\ col /= <<>>) =>
    \A s \in 0..25 : ScoreIs(scores[s + 1], SumForward(s, 0))

\* C10 amended: for a column that is not empty the score of shift s is the
\* sum over j of reference[(j - s) mod 26] * columnFreq[j] (scores taken as
\* exact fractions); for an empty column no score is greater than 0.
C10_Score ==
  scores /= <<>> =>
    IF col /= <<>>
    THEN \A s \in 0..25 : ScoreIs(scores[s + 1], SumBackward(s, 0))
    ELSE \A s \in 0..25 : ~Gt(scores[s + 1], <<0, 1>>)

\* C10 witness: scores of a column with two different letters
C10_Witness ==
  /\ scores /= <<>>
  /\ \E m, n \in 1..Len(col) : col[m] /= col[n]
  /\ \E s, t \in 1..26 : Gt(scores[s], scores[t])

\* the symbols of c at the positions (from 0) congruent to k modulo L, in order
Congruent(c, L, k) ==
  [n \in 1..Cardinality({q \in 0..(Len(c) - 1) : q % L = k}) |-> c[k + (n - 1) * L + 1]]

\* the key symbol the shift search derives from a column: none when the
\* search assigns no shift
DerivedFrom(column) ==
  {ALPHABET[s] : s \in {ColumnFreqs(column, tie).maxShift + 1} \ {0}}

\* C11 as stated: when the run is over, one key has been printed per retained
\* length, in the order of the lengths; the key of length L has L symbols and
\* its k-th symbol is derived from the column of the sample positions
\* congruent to k modulo L.
C11_AsStated ==
  pc \in {"exit", "crashed"} =>
    /\ Len(out) = Len(guessLengths)
    /\ \A n \in 1..Len(out) :
         /\ Len(out[n]) = guessLengths[n]
         /\ \A k \in 1..Len(out[n]) :
              out[n][k] \in DerivedFrom(Congruent(ciph, guessLengths[n], k - 1))

(***************************************************************************)
(* Properties of the vigenere crack on an encrypted known plaintext        *)
(***************************************************************************)
\* number of symbols of a text equal to the n-th letter, n from 1
LetterCount(text, n) == Cardinality({q \in 1..Len(text) : text[q] = ALPHABET[n]})

\* each of the L columns of the plaintext has the letters in the proportions
\* of the reference profile (whose thousandths sum to 1001)
FollowsProfile(plain, L) ==
  \A k \in 0..(L - 1) : \A n \in 1..26 :
    LetterCount(Congruent(plain, L, k), n) * 1001 = FREQUENCIES_V[n] * Len(Congruent(plain, L, k))

\* the sample is the encryption of plain under K
SampleOf(plain, K) == pc /= "read" /\ ciph = VigEncrypt(plain, K)

\* C12: when the sample is the encryption under key K of a plaintext whose
\* columns follow the reference profile, the key printed for a retained
\* length |K| is K (dot products taken as exact fractions).
C12_KeyRecovered ==
  \A K \in TrueKeys : \A plain \in KnownPlains :
    (SampleOf(plain, K) /\ FollowsProfile(plain, Len(K))) =>
      \A n \in 1..Len(out) : guessLengths[n] = Len(K) => out[n] = K

\* C12 witness: the key "ke" of a two-column profile plaintext has been printed
C12_Witness ==
  /\ pc = "exit"
  /\ \E K \in TrueKeys :
       /\ Len(K) = 2
       /\ SampleOf(ProfilePlain(2), K)
       /\ FollowsProfile(ProfilePlain(2), 2)
       /\ \E n \in 1..Len(out) : guessLengths[n] = 2 /\ out[n] = K

\* the lengths retained
Retained == {guessLengths[n] : n \in 1..Len(guessLengths)}

\* the sample is the encryption under K of a plaintext of at least 20 |K|
\* symbols, the maximum length is at least |K| and the lengths are estimated
C13_Case(plain, K) ==
  /\ SampleOf(plain, K)
  /\ Len(plain) >= 20 * Len(K)
  /\ key_max >= Len(K)
  /\ pc \in {"keys", "exit", "crashed"}

\* C13 as stated: for a ciphertext produced with a key of length L from a
\* plaintext of at least 20 L symbols and a maximum length of at least L, the
\* retained lengths contain L.
C13_AsStated ==
  \A K \in TrueKeys : \A plain \in KnownPlains :
    C13_Case(plain, K) => Len(K) \in Retained

\* C13 amended: in that case the coincidence count of the ciphertext at L is
\* the count of the plaintext at L, whatever the key, and L is retained
\* exactly when no length in [1, key_max] has a larger count on the
\* ciphertext.
C13_TrueLength ==
  \A K \in TrueKeys : \A plain \in KnownPlains :
    C13_Case(plain, K) =>
      /\ Coincidences(ciph, Len(K)) = Coincidences(plain, Len(K))
      /\ Len(K) \in Retained <=>
           \A M \in 1..key_max : Coincidences(ciph, M) <= Coincidences(plain, Len(K))

\* C13 witness: the true length 2 is retained and another length is not
C13_Witness ==
  /\ \E K \in TrueKeys : Len(K) = 2 /\ C13_Case(ProfilePlain(2), K)
  /\ 2 \in Retained
  /\ Retained /= 1..key_max

\* C14 as stated: the sample holds at most 2000 symbols, all of them
\* lower-case letters of the alphabet.
C14_AsStated ==
  /\ Len(ciph) <= SampleCap
  /\ \A q \in 1..Len(ciph) : ciph[q] \in {ALPHABET[n] : n \in 1..26}

(***************************************************************************)
(* Determinism of the crackers                                             *)
(***************************************************************************)
\* C15 as stated: the output is determined by the inputs (the text, the known
\* pairs, the maximum key length; the build fixes the order the sort leaves
\* equal counts in).  Every step of the affine crackers assigns one value to
\* each variable; for the vigenere cracker the claim says that a pass of the
\* loop over start can append one symbol only to the key, and cannot both go
\* on to print and end the run.
C15_AsStated ==
  ColumnPending =>
    \A r \in {ColumnResult(ciph, guessLengths[g], j, tie)} :
      /\ Cardinality(Emitted(r)) = 1
      /\ ~Undefined(r)

(***************************************************************************)
(* Scenario and search space of the brute-force crack                      *)
(***************************************************************************)
\* C16: for the ciphertext of "attackatdawn" under (5, 8) and the known pair
\* a -> i, once brute force has evaluated the key (5, 8) its row, holding
\* "attackatdawn", is among the rows printed, and the score of (5, 8) is at
\* least 1.
C16_Scenario ==
  (pc = "exit" \/ (last /= <<>> /\ ~Before(last, <<5, 8>>))) =>
    /\ \E n \in 1..Len(out) : out[n] = <<5, 8, Attack>>
    /\ ScoreOf(<<5, 8>>) >= 1

\* C16 witness: the search is over and the row of (5, 8) was printed
C16_Witness ==
  /\ pc = "exit"
  /\ ciph /= Attack
  /\ Printed(<<5, 8>>)

\* C17: every key evaluated is a pair (a, b) with gcd(a, 26) = 1 and b in
\* [0, 26); with fewer than two known pairs no evaluation sets done and at
\* the end all 12 * 26 = 312 keys have been evaluated; with no known pair
\* all 312 rows are printed, in the order of the iteration.
C17_SearchSpace ==
  /\ last /= <<>> => KeyOf(last) \in ValidKeys
  /\ Len(known) < 2 =>
       /\ ~done
       /\ pc = "exit" => nEval = 12 * 26 /\ Cardinality(ValidKeys) = nEval
  /\ (Len(known) = 0 /\ pc = "exit") =>
       /\ Len(out) = 12 * 26
       /\ {KeyOf(out[n]) : n \in 1..Len(out)} = ValidKeys
       /\ \A m, n \in 1..Len(out) : m < n => Before(out[m], out[n])

\* C17 witness: the search with one known pair is over, a row was left out
C17_Witness ==
  /\ pc = "exit"
  /\ Len(known) = 1
  /\ nEval = 312
  /\ Len(out) < 312

(***************************************************************************)
(* Properties of both affine crackers                                      *)
(***************************************************************************)
\* C18: every row printed by the brute-force or by the known-driven crack, in
\* any tier, carries a valid affine key: a in [1, 26) with gcd(a, 26) = 1 and
\* b in [0, 26).
C18_ValidKeys ==
  \A n \in 1..Len(out) :
    /\ out[n][1] \in 1..25
    /\ gcd(out[n][1], 26) = 1
    /\ out[n][2] \in 0..25

\* C18 witness: the known-driven crack has printed a row in a tier after the first
C18_Witness ==
  /\ pc \in {"tier2", "tier3"}
  /\ Len(out) >= 1

\* position in the alphabet, from 0, of the plaintext and of the ciphertext
\* letter of the n-th known pair
PlainAt(n) == known[n][1] - 97
CipherAt(n) == known[n][2] - 97

\* the valid keys <<a, b>> with a x + b = y modulo 26 for the known pairs m
\* and n
KeysOf(m, n) ==
  {<<a, (CipherAt(m) + 26 * 25 - a * PlainAt(m)) % 26>> :
     a \in {c \in {1, 3, 5, 7, 9, 11, 15, 17, 19, 21, 23, 25} :
              (c * PlainAt(n) + CipherAt(m)) % 26 = (c * PlainAt(m) + CipherAt(n)) % 26}}

\* the known pairs m and n are enough to solve the key: their plaintext
\* letters differ by an amount invertible modulo 26 and a valid key maps both
Determines(m, n) ==
  /\ gcd((PlainAt(n) - PlainAt(m) + 26) % 26, 26) = 1
  /\ KeysOf(m, n) /= {}

\* the pairs of positions in the known list that determine a key
Determining == {p \in (1..Len(known)) \X (1..Len(known)) : p[1] < p[2] /\ Determines(p[1], p[2])}

\* the row of the key two known pairs determine
RowOf(p) ==
  LET k == CHOOSE k \in KeysOf(p[1], p[2]) : TRUE
  IN <<k[1], k[2], decrypt(k[1], k[2], ciph)>>

KnownDriven ==
  \/ pc \in {"tier1", "freq", "tier2", "tier3"}
  \/ pc = "exit" /\ (nEval = 0 \/ nTried > 0)

AssumedPairs == {<<FREQUENCIES[r], freqs[r][1]>> : r \in {n \in 1..Len(freqs) : freqs[n][2] > 0}}

\* the user-entered known pairs whose ciphertext letter occurs in the first line
PresentPairs == {known[n] : n \in {m \in 1..Len(known) : \E x \in 1..Len(ciph) : ciph[x] = known[m][2]}}

\* the knowns, user-entered or assumed, that the key <<a, b>> matches
MatchedKnowns(a, b) == {p \in PresentPairs \cup AssumedPairs : encryptChar(a, b, p[1]) = p[2]}

\* C20 as stated: in tiers 2 and 3 of the known-driven crack, once the
\* candidate scored last matches at least two knowns, user-entered or assumed
\* from the frequency analysis, processing has stopped.
C20_AsStated ==
  (pc \in {"tier2", "tier3"} /\ last /= <<>> /\ Cardinality(MatchedKnowns(last[1], last[2])) >= 2)
    => done

(***************************************************************************)
(* Properties of the frequency tables                                      *)
(***************************************************************************)
\* the sum of the numerators of the fractions lo to hi of the sequence f
RECURSIVE SumNum(_, _, _)
SumNum(f, lo, hi) ==
  IF lo > hi THEN 0
  ELSE IF lo = hi THEN f[lo][1]
  ELSE SumNum(f, lo, (lo + hi) \div 2) + SumNum(f, ((lo + hi) \div 2) + 1, hi)

\* the fractions of the sequence f that are not 0 have the denominator den
\* and add up to whole / den
AddsUpTo(f, den, whole) ==
  /\ \A e \in 1..Len(f) : f[e][1] = 0 \/ f[e][2] = den
  /\ SumNum(f, 1, Len(f)) = whole

\* the 26 fractions W of the latest column of the vigenere crack
ColumnW == WVector(TopFreqs(col, tie), Len(col))

\* the frequency tool has computed the percentages of a text that is not empty
Counted == pc \in {"freq_print", "exit"} /\ total > 0

\* C21: whenever at least one symbol was counted the percentages of the
\* frequency tool add up to 100, and in the vigenere crack the 26 fractions of
\* every column that is not empty add up to 1.
C21_SumToWhole ==
  /\ Counted =>
       AddsUpTo([e \in 1..Len(frequencies) |-> frequencies[e][3]], total, 100 * total)
  /\ col /= <<>> => AddsUpTo(ColumnW, Len(col), Len(col))

\* C21 witness: the frequency tool has printed two symbols of different
\* percentages
C21_Witness ==
  /\ Counted
  /\ Len(out) = 2
  /\ out[1][3] /= out[2][3]

\* the position in the unsorted table of the entry of the character c
TableIndex(c) == IF c >= 0 THEN c ELSE c + 256

\* the sorted table t is in descending order of count
Descending(t) == \A k \in 1..(Len(t) - 1) : t[k][2] >= t[k + 1][2]

\* entries of equal count of the sorted table t are in the order of the table
TiesInTableOrder(t) ==
  \A k \in 1..(Len(t) - 1) :
    t[k][2] = t[k + 1][2] => TableIndex(t[k][1]) < TableIndex(t[k + 1][1])

\* the sorted tables of the state: of the frequency tool, of the known-driven
\* affine crack and of the latest column of the vigenere crack
SortedTables ==
  (IF pc \in {"freq_print", "exit"} /\ frequencies /= <<>> THEN {frequencies} ELSE {})
    \cup (IF freqs /= <<>> THEN {freqs} ELSE {})
    \cup (IF col /= <<>> THEN {TopFreqs(col, tie)} ELSE {})

\* C22 as stated: a sorted frequency table is in descending order of count and
\* its entries of equal count keep the order of the table.
C22_AsStated == \A t \in SortedTables : Descending(t) /\ TiesInTableOrder(t)

(***************************************************************************)
(* The order of the known pairs                                            *)
(***************************************************************************)
\* the lists that hold the pairs of the list kn in another order
Reorderings(kn) ==
  {SubSeq([k \in 1..Len(kn) |-> kn[pi[k]]], 1, Len(kn)) : pi \in Permutations(1..Len(kn))}

\* the scores of checkSoln for the candidate scored last and the lists that
\* hold the known pairs in another order
ScoresOfLast ==
  {checkLoop(msg, ciph, q, 1, 0) : msg \in {decrypt(last[1], last[2], ciph)}, q \in Reorderings(known)}

\* the candidate scored last matches two known pairs and is contradicted by
\* another
Mixed ==
  \E msg \in {decrypt(last[1], last[2], ciph)} :
    /\ MatchCount(msg, Len(known)) >= 2
    /\ \E n \in 1..Len(known) : Contradicted(msg, n)

\* the row of the candidate scored last has been printed
LastPrinted == out /= <<>> /\ KeyOf(out[Len(out)]) = KeyOf(last)

\* with the score s the brute force prints and stops as it did for the
\* candidate scored last
SameCourse(s) ==
  /\ s = last[3]
  /\ PrintsRow(s) <=> LastPrinted
  /\ Confident(s) <=> done

\* C23 as stated: for every order of the known pairs checkSoln gives the
\* candidate scored last the same outcome, so that the brute force prints its
\* row, and ends, for every order or for none.
C23_AsStated == last /= <<>> => \A s \in ScoresOfLast : SameCourse(s)

\* C23, amended: checkSoln gives a candidate the same outcome for every order
\* of the known pairs, and the brute force prints its row and ends for every
\* order or for none, unless the candidate matches two pairs and is
\* contradicted by another; then the outcome is 2 or -1 by the order.
C23_OrderOfKnowns ==
  last /= <<>> =>
    IF Mixed THEN ScoresOfLast = {2, -1} ELSE \A s \in ScoresOfLast : SameCourse(s)

\* C23 witness: the brute force has scored 2 a candidate for a list of three
\* pairs, not all the same, none of which contradicts it
C23_Witness ==
  /\ pc = "exit"
  /\ Len(known) = 3
  /\ known[1] /= known[2]
  /\ last[3] = 2
  /\ ~Mixed

(***************************************************************************)
(* Properties of linsolve                                                  *)
(***************************************************************************)
\* the residue d has an inverse modulo 26
Invertible(d) == \E y \in 1..25 : (d * y) % 26 = 1

\* the a of 0..25 with a (x2 - x1) = y2 - y1 modulo 26, for an invertible
\* x2 - x1
DerivedA(p1, p2) ==
  CHOOSE a \in 0..25 : (a * ((p2[1] - p1[1] + 26) % 26)) % 26 = (p2[2] - p1[2] + 26) % 26

\* C24: linsolve returns (0, 0) when x2 - x1 has no inverse modulo 26 or when
\* the derived a is not coprime with 26; otherwise it returns (a, b) with
\* a = (y2 - y1) inverse(x2 - x1) and b = y1 - a x1 modulo 26, so that
\* a x1 + b = y1 and a x2 + b = y2 modulo 26, gcd(a, 26) = 1 and b is in 0..25.
C24_Linsolve ==
  (pc = "exit" /\ args /= <<>>) =>
    LET x1 == args[1][1]
        y1 == args[1][2]
        x2 == args[2][1]
        y2 == args[2][2]
    IN IF ~Invertible((x2 - x1 + 26) % 26) THEN result = <<0, 0>>
       ELSE IF gcd(DerivedA(args[1], args[2]), 26) /= 1 THEN result = <<0, 0>>
       ELSE /\ result[1] = DerivedA(args[1], args[2])
            /\ result[2] = (y1 + 26 * 25 - result[1] * x1) % 26
            /\ (result[1] * x1 + result[2]) % 26 = y1
            /\ (result[1] * x2 + result[2]) % 26 = y2
            /\ gcd(result[1], 26) = 1
            /\ result[2] \in 0..25

\* C24 witness: the key (5, 8) solved from the pairs (0, 8) and (1, 13)
C24_Witness ==
  /\ pc = "exit"
  /\ args = <<<<0, 8>>, <<1, 13>>>>
  /\ result = <<5, 8>>

(***************************************************************************)
(* Properties of tier 2 of the known-driven crack                          *)
(***************************************************************************)
\* tier 2 is about to try the frequency rank i with the known pair j
CellPending == pc = "tier2" /\ i < 26 /\ ~done

\* the pair hypothesised for rank r (from 0) collides with the known pair p:
\* same plaintext symbol or same ciphertext symbol
Collides(r, p) == FREQUENCIES[r + 1] = p[1] \/ freqs[r + 1][1] = p[2]

\* C25 as stated: tier 2 skips the combination of rank i and known pair j
\* exactly when the hypothesised pair collides with the known pair; every
\* other combination is passed to the linear solve.
C25_AsStated ==
  CellPending => (NoConflict(freqs[i + 1], known[j + 1]) <=> ~Collides(i, known[j + 1]))

(***************************************************************************)
(* Properties of the frequency table of the known-driven crack             *)
(***************************************************************************)
\* number of occurrences of the letter c, in either case, in the first line
\* and the rest of the stream
Occurrences(c) ==
  Cardinality({q \in 1..Len(ciph) : tolower(ciph[q]) = c})
    + Cardinality({q \in 1..Len(rest) : tolower(rest[q]) = c})

\* the symbols of the first r ranks
Ranked(r) == {freqs[q][1] : q \in 1..r}

\* C26 as stated: whatever the length of the text, the count of a letter in
\* the frequency table is its number of occurrences in the first line and the
\* rest of the stream, and rank r is the r-th most frequent letter of the text:
\* a rank with a count holds a letter, and no letter of a later rank occurs
\* more often.
C26_AsStated ==
  freqs /= <<>> =>
    \A r \in 1..26 :
      /\ Find(ALPHABET, freqs[r][1]) /= 0 => freqs[r][2] = Occurrences(freqs[r][1])
      /\ freqs[r][2] > 0 => Find(ALPHABET, freqs[r][1]) /= 0
      /\ \A n \in 1..26 : ALPHABET[n] \notin Ranked(r) => Occurrences(ALPHABET[n]) <= freqs[r][2]

(***************************************************************************)
(* Safety of the column frequencies and of the shift search                *)
(***************************************************************************)
\* C27 as stated: for every retained length and every column each of the 26
\* writes to W uses an index in 0..25, also when the column holds fewer than
\* 26 distinct letters.
C27_AsStated ==
  ColumnPending =>
    WIndices(TopFreqs(Column(ciph, guessLengths[g], j), tie)) \subseteq 0..25

\* C28 as stated: for every retained length and every offset the column is
\* not empty when its counts are divided by its size, and the shift search
\* assigns maxShift, a shift of 0..25, before it indexes the alphabet; also
\* for an empty sample and for one shorter than the maximum key length.
C28_AsStated ==
  ColumnPending =>
    \A r \in {ColumnResult(ciph, guessLengths[g], j, tie)} :
      /\ r.column /= <<>>
      /\ r.maxShift \in 0..25

(***************************************************************************)
(* Properties of the command groups of the bbs tool                        *)
(***************************************************************************)
\* the threads have been started
Started == pc \in {"bbs_poll", "exit"} /\ groups /= <<>>

\* the lines of the results of the group k that report a command
Ran(k) == SelectSeq(groups[k].results, LAMBDA l : l.pos > 0)

\* the positions on the command line of the commands of the sequence q
Positions(q) == [n \in 1..Len(q) |-> q[n].pos]

\* the positions of the commands the group k has run or has still to run
Held(k) ==
  {groups[k].queue[n].pos : n \in 1..Len(groups[k].queue)}
    \cup {Ran(k)[n].pos : n \in 1..Len(Ran(k))}

\* the commands of the group k that returned true
Succeeded(k) == SelectSeq(Ran(k), LAMBDA l : l.text = "done")

\* the paths the command c reads or writes
PathsOf(c) == IF c.type = "g" THEN {} ELSE {ReadPath(c), WritePath(c)}

\* the paths read or written by any command of the group k
GroupPaths(k) == UNION {PathsOf(argv[n]) : n \in {m \in 1..Len(argv) : GroupKey(argv[m]) = k}}

\* the group k runs its commands in the order of the command line, one at
\* a time, each after the success of the one before, and ends on a failure
InOrder(k) ==
  /\ Positions(Succeeded(k)) \o Positions(groups[k].queue) = Positions(QueueOf(argv, k))
  /\ \A n \in 1..Len(Ran(k)) : Ran(k)[n].text = "failed" =>
       /\ n = Len(Ran(k))
       /\ groups[k].state = "finished"
       /\ Ran(k)[n].pos = groups[k].queue[1].pos
  /\ Positions(Succeeded(k)) = Positions(SubSeq(Ran(k), 1, Len(Succeeded(k))))
  /\ groups[k].state = "running" => Len(groups[k].queue) > 0 /\ Len(Ran(k)) = Len(Succeeded(k))

\* two groups run a command at the same moment
Concurrent(k1, k2) == k1 /= k2 /\ groups[k1].state = "running" /\ groups[k2].state = "running"

\* C29: the encode and decode commands of one file base are all in one group,
\* which one thread runs one command at a time in the order of the command
\* line, each command after the success of the one before, a failure ending
\* the group; commands that run at the same moment have different file bases,
\* and two groups never share a path that one of them reads or writes
C29_CommandGroups ==
  Started =>
    /\ \A m, n \in 1..Len(argv) :
         argv[m].type /= "g" /\ argv[n].type /= "g"
           /\ fileBase(argv[m].fileName) = fileBase(argv[n].fileName) =>
             \E k \in DOMAIN groups :
               /\ {m, n} \subseteq Held(k)
               /\ \A k2 \in DOMAIN groups \ {k} : {m, n} \cap Held(k2) = {}
    /\ \A k \in DOMAIN groups :
         /\ InOrder(k)
         /\ Cardinality({n \in 1..Len(threads) : threads[n].grp = k}) = 1
    /\ \A k1, k2 \in DOMAIN groups :
         /\ Concurrent(k1, k2) =>
              /\ k1[1] = "file" /\ k2[1] = "file" =>
                   fileBase(groups[k1].queue[1].cmd.fileName)
                     /= fileBase(groups[k2].queue[1].cmd.fileName)
              /\ PathsOf(groups[k1].queue[1].cmd) \cap PathsOf(groups[k2].queue[1].cmd) = {}
         /\ k1 /= k2 => GroupPaths(k1) \cap GroupPaths(k2) = {}

\* two file groups run a command at the same moment, one of them its second
\* command after the success of its first
C29_Witness ==
  /\ Started
  /\ \E k1, k2 \in DOMAIN groups :
       /\ Concurrent(k1, k2)
       /\ k1[1] = "file" /\ k2[1] = "file"
       /\ Len(Succeeded(k1)) = 1
       /\ Len(QueueOf(argv, k1)) = 2

\* the positions in out of the lines of the group k
PrintedAt(k) == {n \in 1..Len(out) : out[n].grp = k}

\* the lines of the group k in out, in the order they were printed in
PrintedOf(k) == SelectSeq(out, LAMBDA l : l.grp = k)

\* the thread of the group k
ThreadOf(k) == threads[CHOOSE n \in 1..Len(threads) : threads[n].grp = k]

\* main has returned, with 0 from the polling loop or with 1 after usage
Returned == pc \in {"exit", "usage"}

\* one thread is started for each group; a group is printed after it has
\* finished, its lines once and next to each other; main returns from the
\* polling loop with every group finished and printed
Completion ==
  Started =>
    /\ Len(threads) = Cardinality(DOMAIN groups)
    /\ \A k \in DOMAIN groups :
         /\ \E n \in 1..Len(threads) : threads[n].grp = k
         /\ ThreadOf(k).printed => groups[k].state = "finished"
         /\ PrintedOf(k) = IF ThreadOf(k).printed THEN groups[k].results ELSE <<>>
         /\ \A m, n \in PrintedAt(k) : m..n \subseteq PrintedAt(k)
         /\ pc = "exit" => ThreadOf(k).printed
    /\ \A n \in 1..Len(out) : out[n].grp \in DOMAIN groups

\* C30: one thread is started for each command group; main returns from the
\* polling loop only when every group has finished; the lines of a group are
\* printed once, as one block that no line of another group interrupts; and
\* with commands that terminate and threads that are scheduled main returns
C30_Completion == []Completion /\ <>Returned

\* main has returned 0 after it printed the blocks of two groups, one of
\* which ended on a failing command
C30_Witness ==
  /\ pc = "exit"
  /\ Cardinality(DOMAIN groups) = 2
  /\ \A k \in DOMAIN groups : PrintedOf(k) = groups[k].results /\ Len(PrintedOf(k)) > 1
  /\ \E k \in DOMAIN groups : Len(Ran(k)) > Len(Succeeded(k))
====
